---- MODULE Spec2Model ----
(***************************************************************************)
(* Model of the credential service of the wallet (src/src/api/authApi.ts): *)
(* the storage adapter over its two backends, signIn, signUp, the import   *)
(* flow, hasStoredWallet, getWallet, getAddress and clear, run by several  *)
(* callers whose async functions interleave at their await points.         *)
(***************************************************************************)
EXTENDS Integers, Sequences, FiniteSets, TLC

VARIABLES backend, storage, pc, call, local, result, submitted

vars == <<backend, storage, pc, call, local, result, submitted>>

(* ------------------------------ bounds -------------------------------- *)
\* the number of invocations of the exported functions in one run
MaxCalls == 2

\* c ranges over the invocations: each is one call of an exported function
Callers == 1..MaxCalls
Keys == {1, 2}
Passwords == {"pass123", "wrongpass"}

\* the (key, password) pairs wallets are imported with
Credentials == {[k |-> 1, password |-> "pass123"], [k |-> 2, password |-> "wrongpass"]}

(* --------------------------- JavaScript values ------------------------ *)
Null == [t |-> "null"]
Undefined == [t |-> "undefined"]
None == [t |-> "none"]
EmptyString == [t |-> "string", json |-> None]
JsBool(b) == [t |-> "boolean", b |-> b]

\* `x == null` / `x != null` (loose): null and undefined are both nullish.
LooseEqNull(x) == x = Null \/ x = Undefined

\* `x === null` (strict).
StrictEqNull(x) == x = Null

(* ----------------------------- SDK values ----------------------------- *)
MnemonicsOf(k) == [t |-> "mnemonic", seed |-> k]

\* PrivateKey.generateFromMnemonic(mnemonics)
GenerateFromMnemonic(m) == [t |-> "PrivateKey", k |-> m.seed]

\* privateKey.serializeWIF()
SerializeWIF(privateKey) == [t |-> "wif", k |-> privateKey.k]

WifOf(k) == [t |-> "wif", k |-> k]
ValidWifs == {WifOf(k) : k \in Keys}
InvalidWif == [t |-> "wif", k |-> 0]

IsValidWif(wif) == wif \in ValidWifs

\* PrivateKey.deserializeWIF(wif), for a valid wif
DeserializeWIF(wif) == [t |-> "PrivateKey", k |-> wif.k]

\* privateKey.getPublicKey()
GetPublicKey(privateKey) == [t |-> "PublicKey", k |-> privateKey.k]

\* the address of a key pair, and address.toBase58()
AddressOf(privateKey) == [t |-> "Address", k |-> privateKey.k]
ToBase58(address) == [t |-> "base58", k |-> address.k]
FromBase58(s) == [t |-> "Address", k |-> s.k]

\* uuid(): a random identifier, used as a label only; its value is left opaque
Uuid == [t |-> "uuid"]

\* The salt of an account, kept base64 encoded (the SDK draws it at random; here
\* it is a value fixed by the key); Buffer.from(salt, 'base64').toString('hex') converts it.
SaltBase64(privateKey) == [t |-> "base64", v |-> privateKey.k]
Base64ToHex(b) == [t |-> "hex", v |-> b.v]

\* wallet.scrypt of a new wallet
DefaultScrypt == [n |-> 4096, r |-> 8, p |-> 8, dkLen |-> 64]

ScryptParams(scrypt) ==
    [blockSize |-> scrypt.r, cost |-> scrypt.n, parallel |-> scrypt.p, size |-> scrypt.dkLen]

\* privateKey.encrypt(password, address, salt, params)
Encrypt(privateKey, password, address, saltHex, params) ==
    [t |-> "EncryptedKey", k |-> privateKey.k, password |-> password,
     address |-> address, salt |-> saltHex, params |-> params]

\* encryptedKey.decrypt(password, address, salt, params) throws unless every
\* input is the one the key was encrypted with.
DecryptThrows(encryptedKey, password, address, saltHex, params) ==
    ~ /\ encryptedKey.password = password
      /\ encryptedKey.address = address
      /\ encryptedKey.salt = saltHex
      /\ encryptedKey.params = params

\* encryptedKey.serializeWIF() and its inverse
SerializeEncrypted(encryptedKey) == [t |-> "encwif", key |-> encryptedKey]
DeserializeEncrypted(s) == s.key

\* Wallet.create(name)
WalletCreate(name) ==
    [name |-> name, defaultOntid |-> EmptyString, defaultAccountAddress |-> EmptyString,
     scrypt |-> DefaultScrypt, identities |-> <<>>, accounts |-> <<>>]

\* Identity.create(privateKey, password, label, params)
IdentityCreate(privateKey, password, label, params) ==
    LET address == AddressOf(privateKey)
        salt == SaltBase64(privateKey)
    IN [ontid |-> [t |-> "ontid", k |-> privateKey.k],
        label |-> label,
        controls |-> <<[address |-> address,
                        salt |-> salt,
                        encryptedKey |-> Encrypt(privateKey, password, address,
                                                 Base64ToHex(salt), params)]>>]

\* Account.create(privateKey, password, label, params)
AccountCreate(privateKey, password, label, params) ==
    LET address == AddressOf(privateKey)
        salt == SaltBase64(privateKey)
    IN [address |-> address,
        label |-> label,
        salt |-> salt,
        encryptedKey |-> Encrypt(privateKey, password, address,
                                 Base64ToHex(salt), params)]

AddIdentity(wallet, identity) ==
    [wallet EXCEPT !.identities = Append(@, identity)]

AddAccount(wallet, account) ==
    [wallet EXCEPT !.accounts = Append(@, account)]

SetDefaultIdentity(wallet, ontid) ==
    [wallet EXCEPT !.defaultOntid = ontid]

\* mutant of SetDefaultAccount: the default account is not marked
SetDefaultAccountSkipped(wallet, address) == wallet

SetDefaultAccount(wallet, address) ==
    [wallet EXCEPT !.defaultAccountAddress = address]

(* --------------------------- serialization ---------------------------- *)
AccountToJsonObj(a) ==
    [address |-> ToBase58(a.address), label |-> a.label, salt |-> a.salt,
     key |-> SerializeEncrypted(a.encryptedKey)]

AccountParseJsonObj(o) ==
    [address |-> FromBase58(o.address), label |-> o.label, salt |-> o.salt,
     encryptedKey |-> DeserializeEncrypted(o.key)]

ControlToJsonObj(ctl) ==
    [address |-> ToBase58(ctl.address), salt |-> ctl.salt,
     key |-> SerializeEncrypted(ctl.encryptedKey)]

ControlParseJsonObj(o) ==
    [address |-> FromBase58(o.address), salt |-> o.salt,
     encryptedKey |-> DeserializeEncrypted(o.key)]

IdentityToJsonObj(i) ==
    [ontid |-> i.ontid, label |-> i.label,
     controls |-> [n \in DOMAIN i.controls |-> ControlToJsonObj(i.controls[n])]]

IdentityParseJsonObj(o) ==
    [ontid |-> o.ontid, label |-> o.label,
     controls |-> [n \in DOMAIN o.controls |-> ControlParseJsonObj(o.controls[n])]]

\* wallet.toJsonObj()
WalletToJsonObj(w) ==
    [t |-> "object", name |-> w.name, defaultOntid |-> w.defaultOntid,
     defaultAccountAddress |-> w.defaultAccountAddress, scrypt |-> w.scrypt,
     identities |-> [n \in DOMAIN w.identities |-> IdentityToJsonObj(w.identities[n])],
     accounts |-> [n \in DOMAIN w.accounts |-> AccountToJsonObj(w.accounts[n])]]

\* Wallet.parseJsonObj(obj), for a wallet document
WalletParseJsonObj(o) ==
    [name |-> o.name, defaultOntid |-> o.defaultOntid,
     defaultAccountAddress |-> o.defaultAccountAddress, scrypt |-> o.scrypt,
     identities |-> [n \in DOMAIN o.identities |-> IdentityParseJsonObj(o.identities[n])],
     accounts |-> [n \in DOMAIN o.accounts |-> AccountParseJsonObj(o.accounts[n])]]

JsonStringify(obj) == [t |-> "string", json |-> obj]
IsJsonText(s) == s.t = "string"
JsonParse(s) == s.json

\* wallet.toJson()
WalletToJson(w) == JsonStringify(WalletToJsonObj(w))

\* Wallet.parseJson(json) throws when JSON.parse does (undefined is no JSON text).
WalletParseJsonThrows(s) == ~IsJsonText(s)
WalletParseJson(s) == WalletParseJsonObj(JsonParse(s))

(* --------------------------- storage adapter -------------------------- *)
EmptyStore == [k \in {} |-> None]

\* mutants of StoreSet: a set that writes nothing, and one that keeps a value
\* already stored
StoreSetNoWrite(s, key, value) == s

StoreSetKeepExisting(s, key, value) ==
    [k \in DOMAIN s \cup {key} |-> IF k \in DOMAIN s THEN s[k] ELSE value]

StoreSet(s, key, value) ==
    [k \in DOMAIN s \cup {key} |-> IF k = key THEN value ELSE s[k]]

\* localStorage.getItem(key): null when the key is absent
LocalGetItem(s, key) == IF key \in DOMAIN s THEN s[key] ELSE Null

\* (await browser.storage.local.get([key]))[key]: undefined when absent
BrowserGet(s, key) == IF key \in DOMAIN s THEN s[key] ELSE Undefined

(* ------------------------------ frames -------------------------------- *)
NoCall == [op |-> "none", password |-> None, register |-> None, wif |-> None,
           mnemonics |-> None, arg |-> None]

NoLocal == [walletEncoded |-> None, wallet |-> None, identity |-> None,
            privateKey |-> None, tx |-> None, value |-> None]

NoResult == [status |-> "none", value |-> None, error |-> ""]

Ok(v) == [status |-> "ok", value |-> v, error |-> ""]
Err(e) == [status |-> "error", value |-> None, error |-> e]

Init ==
    /\ backend \in {"localStorage", "browser"}
    /\ storage = EmptyStore
    /\ pc = [c \in Callers |-> "idle"]
    /\ call = [c \in Callers |-> NoCall]
    /\ local = [c \in Callers |-> NoLocal]
    /\ result = [c \in Callers |-> NoResult]
    /\ submitted = 0


(* ------------------------------ helpers ------------------------------- *)
\* the invocations are numbered in the order they start
Startable(c) ==
    /\ pc[c] = "idle"
    /\ IF c = 1 THEN TRUE ELSE pc[c - 1] # "idle"

Begin(c, frame) ==
    /\ Startable(c)
    /\ call' = [call EXCEPT ![c] = frame]
    /\ result' = [result EXCEPT ![c] = NoResult]

Finish(c, r) ==
    /\ pc' = [pc EXCEPT ![c] = "done"]
    /\ local' = [local EXCEPT ![c] = NoLocal]
    /\ result' = [result EXCEPT ![c] = r]

(* ------------------------- storageGet (24-58) ------------------------- *)
\* storageGet('wallet') called by c, to continue at `next`: localStorage is read
\* during the call, browser.storage.local when its request is served.
StorageGetCall(c, next) ==
    IF backend = "localStorage"
    THEN /\ local' = [local EXCEPT ![c] = [NoLocal EXCEPT
                        !.walletEncoded = LocalGetItem(storage, "wallet")]]
         /\ pc' = [pc EXCEPT ![c] = next]
    ELSE /\ local' = [local EXCEPT ![c] = NoLocal]
         /\ pc' = [pc EXCEPT ![c] = "storageGet"]

BrowserStorageGet(c) ==
    /\ pc[c] = "storageGet"
    /\ local' = [local EXCEPT ![c].walletEncoded = BrowserGet(storage, "wallet")]
    /\ pc' = [pc EXCEPT ![c] = call[c].op]
    /\ UNCHANGED <<backend, storage, call, result, submitted>>

(* ------------------------------- clear -------------------------------- *)
CallClear(c) ==
    /\ Begin(c, [NoCall EXCEPT !.op = "clear"])
    /\ local' = [local EXCEPT ![c] = NoLocal]
    /\ IF backend = "localStorage"
       THEN /\ storage' = EmptyStore
            /\ pc' = [pc EXCEPT ![c] = "clear"]
       ELSE /\ storage' = storage
            /\ pc' = [pc EXCEPT ![c] = "storageClear"]
    /\ UNCHANGED <<backend, submitted>>

BrowserStorageClear(c) ==
    /\ pc[c] = "storageClear"
    /\ storage' = EmptyStore
    /\ pc' = [pc EXCEPT ![c] = "clear"]
    /\ UNCHANGED <<backend, call, local, result, submitted>>

ClearCont(c) ==
    /\ pc[c] = "clear"
    /\ Finish(c, Ok(Undefined))
    /\ UNCHANGED <<backend, storage, call, submitted>>

(* --------------------------- decryptWallet ---------------------------- *)
\* mutant of DecryptWalletThrows: the base64 salt is passed on unconverted
DecryptWalletRawSalt(wallet, password) ==
    IF wallet.accounts = <<>>
    THEN TRUE
    ELSE LET account == wallet.accounts[1]
         IN DecryptThrows(account.encryptedKey, password, account.address, account.salt,
                          ScryptParams(wallet.scrypt))

DecryptWalletThrows(wallet, password) ==
    IF wallet.accounts = <<>>
    THEN TRUE
    ELSE LET account == wallet.accounts[1]
             saltHex == Base64ToHex(account.salt)
         IN DecryptThrows(account.encryptedKey, password, account.address, saltHex,
                          ScryptParams(wallet.scrypt))

(* ------------------------------- signIn ------------------------------- *)
NotFound == "Wallet data not found."
DecryptionError == "Error during wallet decryption."
MissingData == "Missing wallet data."
\* the errors of the SDK that leave the import unmodified
RegistrationFailure == "sendRawTransaction rejected"
InvalidWifError == "deserializeWIF threw"

SignInResult(walletEncoded, password) ==
    IF StrictEqNull(walletEncoded)
    THEN Err(NotFound)
    ELSE IF \/ WalletParseJsonThrows(walletEncoded)
            \/ DecryptWalletThrows(WalletParseJson(walletEncoded), password)
         THEN Err(DecryptionError)
         ELSE Ok(walletEncoded)

CallSignIn(c, password) ==
    /\ Begin(c, [NoCall EXCEPT !.op = "signIn", !.password = password])
    /\ StorageGetCall(c, "signIn")
    /\ UNCHANGED <<backend, storage, submitted>>

\* mutant of SignInCont: a failed unlock wipes the storage
SignInContClears(c) ==
    LET r == SignInResult(local[c].walletEncoded, call[c].password)
    IN /\ pc[c] = "signIn"
       /\ Finish(c, r)
       /\ storage' = IF r.status = "error" THEN EmptyStore ELSE storage
       /\ UNCHANGED <<backend, call, submitted>>

SignInCont(c) ==
    /\ pc[c] = "signIn"
    /\ Finish(c, SignInResult(local[c].walletEncoded, call[c].password))
    /\ UNCHANGED <<backend, storage, call, submitted>>

(* --------------------------- hasStoredWallet -------------------------- *)
\* mutant of HasStoredWalletResult: the strict comparison signIn uses
HasStoredWalletStrict(walletEncoded) == ~StrictEqNull(walletEncoded)

HasStoredWalletResult(walletEncoded) == ~LooseEqNull(walletEncoded)

CallHasStoredWallet(c) ==
    /\ Begin(c, [NoCall EXCEPT !.op = "hasStoredWallet"])
    /\ StorageGetCall(c, "hasStoredWallet")
    /\ UNCHANGED <<backend, storage, submitted>>

HasStoredWalletCont(c) ==
    /\ pc[c] = "hasStoredWallet"
    /\ Finish(c, Ok(JsBool(HasStoredWalletResult(local[c].walletEncoded))))
    /\ UNCHANGED <<backend, storage, call, submitted>>

(* ------------------------ getWallet, getAddress ----------------------- *)
GetWalletResult(walletEncoded) ==
    IF LooseEqNull(walletEncoded)
    THEN Err(MissingData)
    ELSE Ok(WalletParseJsonObj(walletEncoded))

GetAddressResult(walletEncoded) ==
    LET wallet == GetWalletResult(walletEncoded)
    IN IF wallet.status = "error" THEN wallet ELSE Ok(wallet.value.defaultAccountAddress)

\* the wallet data a caller can hold: nothing, or the document now stored
WalletData ==
    {Null, Undefined} \cup
    (IF "wallet" \in DOMAIN storage THEN {JsonParse(storage["wallet"])} ELSE {})

CallGetWallet(c, walletEncoded) ==
    /\ Startable(c)
    /\ call' = [call EXCEPT ![c] = [NoCall EXCEPT !.op = "getWallet", !.arg = walletEncoded]]
    /\ Finish(c, GetWalletResult(walletEncoded))
    /\ UNCHANGED <<backend, storage, submitted>>

CallGetAddress(c, walletEncoded) ==
    /\ Startable(c)
    /\ call' = [call EXCEPT ![c] = [NoCall EXCEPT !.op = "getAddress", !.arg = walletEncoded]]
    /\ Finish(c, GetAddressResult(walletEncoded))
    /\ UNCHANGED <<backend, storage, submitted>>


(* ------------------------------- import ------------------------------- *)
\* OntidContract.buildRegisterOntidTx(ontId, publicKey, '0', '30000'), with its
\* payer set and signed with the private key
RegisterOntidTx(identity, publicKey, privateKey) ==
    [ontid |-> identity.ontid, publicKey |-> publicKey,
     payer |-> identity.controls[1].address, signedBy |-> privateKey.k]

\* mutant of WalletDocument: the returned object, wif included, is what is stored
WalletDocumentWithWif(wallet, account, wif) ==
    JsonStringify([t |-> "object",
                   encryptedWif |-> SerializeEncrypted(account.encryptedKey),
                   wallet |-> WalletToJson(wallet),
                   wif |-> wif])

\* the document handed to storageSet('wallet', ...)
WalletDocument(wallet, account, wif) == WalletToJson(wallet)

\* the value importPrivateKey returns
ImportValue(wallet, account, wif) ==
    [encryptedWif |-> SerializeEncrypted(account.encryptedKey),
     wallet |-> WalletToJson(wallet),
     wif |-> wif]

\* what importMnemonics adds to it: { mnemonics, ...result }
ReturnValue(frame, value) ==
    IF frame.op = "importPrivateKey"
    THEN [mnemonics |-> Undefined, encryptedWif |-> value.encryptedWif,
          wallet |-> value.wallet, wif |-> value.wif]
    ELSE [mnemonics |-> frame.mnemonics, encryptedWif |-> value.encryptedWif,
          wallet |-> value.wallet, wif |-> value.wif]

\* lines 140-147: create the account, attach identity and account, mark them
\* default and call storageSet (localStorage is written during the call).
AttachAndPersist(c, wallet, identity, privateKey, password, wif, label) ==
    LET scryptParams == ScryptParams(wallet.scrypt)
        account == AccountCreate(privateKey, password, label, scryptParams)
        w1 == AddIdentity(wallet, identity)
        w2 == AddAccount(w1, account)
        w3 == SetDefaultIdentity(w2, identity.ontid)
        w4 == SetDefaultAccount(w3, ToBase58(account.address))
        doc == WalletDocument(w4, account, wif)
    IN /\ local' = [local EXCEPT ![c] = [NoLocal EXCEPT
                       !.walletEncoded = doc,
                       !.value = ImportValue(w4, account, wif)]]
       /\ IF backend = "localStorage"
          THEN /\ storage' = StoreSet(storage, "wallet", doc)
               /\ pc' = [pc EXCEPT ![c] = "import"]
          ELSE /\ storage' = storage
               /\ pc' = [pc EXCEPT ![c] = "storageSet"]

\* lines 114-138: the part of importPrivateKey that runs during the call
ImportStart(c, frame) ==
    /\ Begin(c, frame)
    /\ LET wallet == WalletCreate(Uuid)
           scryptParams == ScryptParams(wallet.scrypt)
       IN IF ~IsValidWif(frame.wif)
          THEN /\ pc' = [pc EXCEPT ![c] = "throw"]
               /\ local' = [local EXCEPT ![c] = NoLocal]
               /\ UNCHANGED <<storage, submitted>>
          ELSE LET privateKey == DeserializeWIF(frame.wif)
                   publicKey == GetPublicKey(privateKey)
                   identity == IdentityCreate(privateKey, frame.password,
                                              Uuid, scryptParams)
               IN IF frame.register
                  THEN /\ local' = [local EXCEPT ![c] = [NoLocal EXCEPT
                                      !.wallet = wallet,
                                      !.identity = identity,
                                      !.privateKey = privateKey,
                                      !.tx = RegisterOntidTx(identity, publicKey, privateKey)]]
                       /\ submitted' = submitted + 1
                       /\ pc' = [pc EXCEPT ![c] = "send"]
                       /\ UNCHANGED storage
                  ELSE /\ AttachAndPersist(c, wallet, identity, privateKey,
                                           frame.password, frame.wif, Uuid)
                       /\ UNCHANGED submitted
    /\ UNCHANGED backend

CallImportPrivateKey(c, wif, password, register) ==
    ImportStart(c, [NoCall EXCEPT !.op = "importPrivateKey", !.wif = wif,
                                  !.password = password, !.register = register])

CallImportMnemonics(c, mnemonics, password, register) ==
    ImportStart(c, [NoCall EXCEPT !.op = "importMnemonics", !.mnemonics = mnemonics,
                                  !.wif = SerializeWIF(GenerateFromMnemonic(mnemonics)),
                                  !.password = password, !.register = register])

\* mutant of CallSignUp: the import flow is run without registration
CallSignUpNoRegister(c, password, mnemonics) ==
    ImportStart(c, [NoCall EXCEPT !.op = "signUp", !.mnemonics = mnemonics,
                                  !.wif = SerializeWIF(GenerateFromMnemonic(mnemonics)),
                                  !.password = password, !.register = FALSE])

\* utils.generateMnemonic() draws the mnemonics
CallSignUp(c, password, mnemonics) ==
    ImportStart(c, [NoCall EXCEPT !.op = "signUp", !.mnemonics = mnemonics,
                                  !.wif = SerializeWIF(GenerateFromMnemonic(mnemonics)),
                                  !.password = password, !.register = TRUE])

\* deserializeWIF threw during the call: the promise is rejected
ImportThrow(c) ==
    /\ pc[c] = "throw"
    /\ Finish(c, Err(InvalidWifError))
    /\ UNCHANGED <<backend, storage, call, submitted>>

\* client.sendRawTransaction resolved: the function goes on to line 140
SendResolve(c) ==
    /\ pc[c] = "send"
    /\ AttachAndPersist(c, local[c].wallet, local[c].identity, local[c].privateKey,
                        call[c].password, call[c].wif, Uuid)
    /\ UNCHANGED <<backend, call, result, submitted>>

\* mutant of SendReject: the wallet is built and written before the error leaves
SendRejectPersists(c) ==
    LET wallet == local[c].wallet
        identity == local[c].identity
        account == AccountCreate(local[c].privateKey, call[c].password, Uuid,
                                 ScryptParams(wallet.scrypt))
        w == SetDefaultAccount(
                 SetDefaultIdentity(AddAccount(AddIdentity(wallet, identity), account),
                                    identity.ontid),
                 ToBase58(account.address))
    IN /\ pc[c] = "send"
       /\ storage' = StoreSet(storage, "wallet", WalletToJson(w))
       /\ Finish(c, Err(RegistrationFailure))
       /\ UNCHANGED <<backend, call, submitted>>

\* client.sendRawTransaction rejected: the error leaves importPrivateKey
SendReject(c) ==
    /\ pc[c] = "send"
    /\ Finish(c, Err(RegistrationFailure))
    /\ UNCHANGED <<backend, storage, call, submitted>>

\* browser.storage.local.set({wallet: value}) is served
BrowserStorageSet(c) ==
    /\ pc[c] = "storageSet"
    /\ storage' = StoreSet(storage, "wallet", local[c].walletEncoded)
    /\ pc' = [pc EXCEPT ![c] = "import"]
    /\ UNCHANGED <<backend, call, local, result, submitted>>

\* lines 149-153 (and 108-111): the value returned
ImportCont(c) ==
    /\ pc[c] = "import"
    /\ Finish(c, Ok(ReturnValue(call[c], local[c].value)))
    /\ UNCHANGED <<backend, storage, call, submitted>>

(* ------------------------------ behaviour ----------------------------- *)
Next ==
    \E c \in Callers :
        \/ \E password \in Passwords : CallSignIn(c, password)
        \/ SignInCont(c)
        \/ CallHasStoredWallet(c)
        \/ HasStoredWalletCont(c)
        \/ BrowserStorageGet(c)
        \/ CallClear(c)
        \/ BrowserStorageClear(c)
        \/ ClearCont(c)
        \/ \E walletEncoded \in WalletData : CallGetWallet(c, walletEncoded)
        \/ \E walletEncoded \in WalletData : CallGetAddress(c, walletEncoded)
        \/ \E cred \in Credentials :
               CallSignUp(c, cred.password, MnemonicsOf(cred.k))
        \/ \E cred \in Credentials, register \in BOOLEAN :
               CallImportMnemonics(c, MnemonicsOf(cred.k), cred.password, register)
        \/ \E cred \in Credentials, register \in BOOLEAN :
               CallImportPrivateKey(c, WifOf(cred.k), cred.password, register)
        \/ \E cred \in Credentials, register \in BOOLEAN :
               CallImportPrivateKey(c, InvalidWif, cred.password, register)
        \/ ImportThrow(c)
        \/ SendResolve(c)
        \/ SendReject(c)
        \/ BrowserStorageSet(c)
        \/ ImportCont(c)

Spec == Init /\ [][Next]_vars

(* ------------------------------- claims ------------------------------- *)
ImportOps == {"signUp", "importMnemonics", "importPrivateKey"}
ReadOnlyOps == {"signIn", "hasStoredWallet", "getWallet", "getAddress"}

Started(c) == pc[c] # "idle"
Returned(c) == pc[c] = "done"
IsImport(c) == call[c].op \in ImportOps
Succeeded(c) == pc[c] = "done" /\ result[c].status = "ok"
Rejected(c) == pc[c] = "done" /\ IsImport(c) /\ result[c] = Err(RegistrationFailure)
HasWallet == "wallet" \in DOMAIN storage
IsDocument(x) == x.t = "string"

\* the imports that have performed their storage write, and what each wrote
Writers == {c \in Callers : IsImport(c) /\ (pc[c] = "import" \/ Succeeded(c))}
DocOfWriter(c) == IF pc[c] = "import" THEN local[c].walletEncoded ELSE result[c].value.wallet
WrittenDocs == {DocOfWriter(c) : c \in Writers}

\* every identity and account of the document is of the key and password of the call
DocumentIsOf(doc, frame) ==
    /\ IsDocument(doc)
    /\ doc.json # None
    /\ \A i \in DOMAIN doc.json.identities :
           /\ doc.json.identities[i].ontid.k = frame.wif.k
           /\ \A j \in DOMAIN doc.json.identities[i].controls :
                  /\ doc.json.identities[i].controls[j].key.key.k = frame.wif.k
                  /\ doc.json.identities[i].controls[j].key.key.password = frame.password
    /\ \A i \in DOMAIN doc.json.accounts :
           /\ doc.json.accounts[i].address.k = frame.wif.k
           /\ doc.json.accounts[i].key.key.k = frame.wif.k
           /\ doc.json.accounts[i].key.key.password = frame.password

\* what storageGet('wallet') would return now
StorageGetNow ==
    IF backend = "localStorage" THEN LocalGetItem(storage, "wallet")
    ELSE BrowserGet(storage, "wallet")

\* no invocation but c writes or clears the storage
NoOtherMutator(c) ==
    \A d \in Callers \ {c} : Started(d) => call[d].op \notin (ImportOps \cup {"clear"})

\* C1, as stated: after an import whose network submission was rejected, the
\* storage holds the wallet of that import.
C1_RejectedImportIsPersisted ==
    \A c \in Callers :
        Rejected(c) => HasWallet /\ DocumentIsOf(storage["wallet"], call[c])

\* C1, amended: when the network submission of a registering import fails, the
\* error reaches the caller and that import has written nothing: whatever the
\* storage holds was written by an import whose submission did not fail (or that
\* made none), and with no other import the storage holds no wallet.
C1_RejectedImportPersistsNothing ==
    \A c \in Callers :
        Rejected(c) =>
            /\ result[c].status = "error"
            /\ call[c].register = TRUE
            /\ HasWallet => storage["wallet"] \in WrittenDocs
            /\ NoOtherMutator(c) => ~HasWallet

C1_Witness ==
    \E c \in Callers : Rejected(c) /\ call[c].op = "signUp" /\ ~HasWallet

\* C2: signIn fails with 'Wallet data not found.' whenever the storage holds no
\* "wallet" key (here: no import was ever started), on both backends.
C2_SignInWithoutWalletIsNotFound ==
    \A c \in Callers :
        (/\ Returned(c)
         /\ call[c].op = "signIn"
         /\ \A d \in Callers : ~(Started(d) /\ IsImport(d)))
        => result[c] = Err(NotFound)

\* C3: signIn reads the value stored under "wallet"; when that value is the wallet
\* a completed import persisted, signIn with the import's password returns exactly
\* that string, and signIn with another password fails with the decryption error.
C3_SignInUnlocks ==
    [][\A c \in Callers :
          /\ (pc[c] # "signIn" /\ pc'[c] = "signIn" /\ HasWallet)
                => local'[c].walletEncoded = storage["wallet"]
          /\ (pc[c] = "signIn" /\ pc'[c] = "done")
                => \A d \in Callers :
                       (/\ Succeeded(d)
                        /\ IsImport(d)
                        /\ result[d].value.wallet = local[c].walletEncoded)
                       => IF call[c].password = call[d].password
                          THEN result'[c] = Ok(local[c].walletEncoded)
                          ELSE result'[c] = Err(DecryptionError)]_vars

C3_Witness ==
    \E c, d \in Callers :
        /\ Succeeded(d) /\ IsImport(d)
        /\ Succeeded(c) /\ call[c].op = "signIn"
        /\ call[c].password = call[d].password
        /\ result[c].value = result[d].value.wallet
        /\ HasWallet /\ storage["wallet"] = result[c].value

\* C4: importPrivateKey(wif, password, false) with a valid wif never rejects and
\* makes no network submission; once it has written, the storage holds its wallet
\* (no other invocation writing or clearing) and hasStoredWallet reads true.
C4_ImportWithoutRegister ==
    \A c \in Callers :
        (/\ Started(c)
         /\ call[c].op = "importPrivateKey"
         /\ IsValidWif(call[c].wif)
         /\ call[c].register = FALSE)
        => /\ pc[c] \in {"storageSet", "import", "done"}
           /\ Returned(c) => result[c].status = "ok"
           /\ (pc[c] \in {"import", "done"} /\ NoOtherMutator(c))
                 => /\ HasWallet
                    /\ storage["wallet"] = DocOfWriter(c)
                    /\ DocumentIsOf(storage["wallet"], call[c])
                    /\ HasStoredWalletResult(StorageGetNow)
           /\ (\A d \in Callers : (Started(d) /\ IsImport(d)) => call[d].register = FALSE)
                 => submitted = 0

C4_Witness ==
    \E c, d \in Callers :
        /\ Succeeded(c)
        /\ call[c].op = "importPrivateKey" /\ call[c].register = FALSE
        /\ Succeeded(d)
        /\ call[d].op = "hasStoredWallet" /\ result[d].value = JsBool(TRUE)
        /\ submitted = 0

\* C5: an import's storage write leaves exactly its own document under "wallet",
\* whatever was stored before, and that document carries only the identity and
\* account of its own key and password; the storage changes only by such a write
\* or by a clear, so after concurrent imports it holds the last writer's wallet.
C5_LastWriterWins ==
    [][/\ \A c \in Callers :
              (pc[c] # "import" /\ pc'[c] = "import")
              => /\ DOMAIN storage' = {"wallet"}
                 /\ storage'["wallet"] = local'[c].walletEncoded
                 /\ DocumentIsOf(storage'["wallet"], call'[c])
       /\ storage' # storage
              => \E c \in Callers :
                     \/ pc[c] # "import" /\ pc'[c] = "import"
                     \/ pc[c] # "clear" /\ pc'[c] = "clear"]_vars

C5_Witness ==
    \E c, d \in Callers :
        /\ c < d
        /\ Succeeded(c) /\ IsImport(c)
        /\ Succeeded(d) /\ IsImport(d)
        /\ result[c].value.wallet # result[d].value.wallet
        /\ HasWallet /\ storage["wallet"] = result[c].value.wallet

\* C6: hasStoredWallet returns true iff a value was stored under "wallet" when it
\* read the storage, on both backends.
C6_HasStoredWalletIffStored ==
    [][\A c \in Callers :
          /\ (pc[c] # "hasStoredWallet" /\ pc'[c] = "hasStoredWallet")
                => /\ IsDocument(local'[c].walletEncoded) <=> HasWallet
                   /\ HasWallet => local'[c].walletEncoded = storage["wallet"]
          /\ (pc[c] = "hasStoredWallet" /\ pc'[c] = "done")
                => result'[c] = Ok(JsBool(IsDocument(local[c].walletEncoded)))]_vars

C6_Witness ==
    /\ backend = "browser"
    /\ ~HasWallet
    /\ \E c, d \in Callers :
           /\ c < d
           /\ Succeeded(c) /\ call[c].op = "clear"
           /\ Succeeded(d) /\ call[d].op = "hasStoredWallet"
           /\ result[d].value = JsBool(FALSE)

\* C7: every signUp and every import with register = true (of a valid key) makes
\* exactly one network submission, and while that submission is pending nothing
\* is attached to its wallet and it has written nothing.
Registering ==
    {c \in Callers : /\ Started(c)
                     /\ IsImport(c)
                     /\ IsValidWif(call[c].wif)
                     /\ (call[c].op = "signUp" \/ call[c].register = TRUE)}

C7_OneSubmissionBeforeWrite ==
    /\ submitted = Cardinality(Registering)
    /\ \A c \in Registering :
           /\ pc[c] \in {"send", "storageSet", "import", "done"}
           /\ pc[c] = "send"
                 => /\ local[c].wallet.identities = <<>>
                    /\ local[c].wallet.accounts = <<>>
                    /\ HasWallet => storage["wallet"] \in WrittenDocs
                    /\ NoOtherMutator(c) => ~HasWallet

C7_Witness ==
    \E c \in Callers :
        /\ Succeeded(c) /\ call[c].op = "signUp"
        /\ submitted = 1
        /\ HasWallet /\ storage["wallet"] = result[c].value.wallet

\* C8: every value stored under "wallet" holds exactly one identity and exactly
\* one account, both of the key of an import, and its default identity and default
\* account address are theirs.
C8_OneIdentityOneAccount ==
    HasWallet =>
        LET doc == storage["wallet"] IN
        /\ IsDocument(doc)
        /\ Len(doc.json.identities) = 1
        /\ Len(doc.json.accounts) = 1
        /\ doc.json.defaultOntid = doc.json.identities[1].ontid
        /\ doc.json.defaultAccountAddress = doc.json.accounts[1].address
        /\ \E c \in Callers :
               /\ Started(c) /\ IsImport(c) /\ IsValidWif(call[c].wif)
               /\ DocumentIsOf(doc, call[c])

C8_Witness ==
    \E c, d \in Callers :
        /\ c < d
        /\ Succeeded(c) /\ IsImport(c)
        /\ Succeeded(d) /\ IsImport(d)
        /\ result[c].value.wallet # result[d].value.wallet
        /\ HasWallet /\ storage["wallet"] = result[d].value.wallet

\* C9: the storage holds at most the "wallet" key, and its value is a serialized
\* wallet whose keys are all encrypted; the wif and the mnemonics are in the value
\* returned to the caller only.
WalletFields ==
    {"t", "name", "defaultOntid", "defaultAccountAddress", "scrypt", "identities", "accounts"}

IsEncrypted(key) == key.t = "encwif" /\ key.key.t = "EncryptedKey"

C9_NoPlaintextStored ==
    /\ DOMAIN storage \subseteq {"wallet"}
    /\ HasWallet =>
           LET doc == storage["wallet"] IN
           /\ IsDocument(doc)
           /\ DOMAIN doc.json = WalletFields
           /\ \A i \in DOMAIN doc.json.accounts :
                  /\ DOMAIN doc.json.accounts[i] = {"address", "label", "salt", "key"}
                  /\ IsEncrypted(doc.json.accounts[i].key)
           /\ \A i \in DOMAIN doc.json.identities :
                  /\ DOMAIN doc.json.identities[i] = {"ontid", "label", "controls"}
                  /\ \A j \in DOMAIN doc.json.identities[i].controls :
                         /\ DOMAIN doc.json.identities[i].controls[j] = {"address", "salt", "key"}
                         /\ IsEncrypted(doc.json.identities[i].controls[j].key)
    /\ \A c \in Callers :
           (Succeeded(c) /\ IsImport(c))
           => /\ result[c].value.wif = call[c].wif
              /\ call[c].op # "importPrivateKey" => result[c].value.mnemonics = call[c].mnemonics

C9_Witness ==
    \E c \in Callers :
        /\ Succeeded(c) /\ call[c].op = "importMnemonics"
        /\ result[c].value.mnemonics = call[c].mnemonics
        /\ result[c].value.wif = SerializeWIF(GenerateFromMnemonic(call[c].mnemonics))
        /\ HasWallet /\ storage["wallet"] = result[c].value.wallet

\* C10: no step of signIn, hasStoredWallet, getWallet or getAddress changes the
\* storage or makes a network submission, whether the call succeeds or fails.
C10_ReadOnly ==
    [][\A c \in Callers :
          (pc'[c] # pc[c] /\ call'[c].op \in ReadOnlyOps)
          => storage' = storage /\ submitted' = submitted]_vars

C10_Witness ==
    \E c, d \in Callers :
        /\ Succeeded(d) /\ IsImport(d)
        /\ Returned(c) /\ call[c].op = "signIn"
        /\ result[c] = Err(DecryptionError)
        /\ HasWallet /\ storage["wallet"] = result[d].value.wallet

====
